---- MODULE Spec2Model ----
(***************************************************************************)
(* Model of the Bitcoin ETL ingestion engine                              *)
(* (Homework/text-to-sql-bitcoin/etl/etl_sync.py, class BitcoinETL):      *)
(* the remote node, the SQLite store with its four tables, and the        *)
(* per-height steps of sync_blocks (fetch -> handle_reorg -> insert_block)*)
(***************************************************************************)
EXTENDS Bags, FiniteSets, Integers, Sequences, TLC

\* ---------------------------------------------------------------- bounds
MaxHeight == 2      \* highest height the remote chain can reach
MaxReorgs == 1      \* number of remote reorganisations in a behaviour
MaxRuns == 2        \* number of sync_blocks calls in a behaviour
MaxBlocksArg == 2   \* largest max_blocks argument tried
MaxFailures == 1    \* number of raised RPC or storage errors in a behaviour
ResumeTip == 5      \* highest remote tip of the resumability scenario
ResumeMaxBlocks == 3 \* largest max_blocks of the resumability scenario
ResumeRuns == 4     \* number of sync_blocks calls of the resumability scenario

VARIABLES
    chain,          \* remote: branch bit of every height 0..tip
    skew,           \* remote: a block answered with a misplaced previousblockhash
    reorgs,         \* remote: reorganisations so far
    db,             \* committed content of the SQLite file
    conn,           \* content seen through the sync connection (with pending writes)
    pc,             \* position of sync_blocks: "idle", "loop", "reorg", "insert"
    height,         \* loop variable of sync_blocks
    current_height, \* first height of the running sync
    end_height,     \* last height of the running sync
    block_data,     \* block fetched for the current height
    reorged,        \* return value of the last handle_reorg
    fork_height,    \* fork_height at the end of the last handle_reorg search
    detect,         \* branch taken by the last handle_reorg
    pre,            \* committed store when handle_reorg was entered
    mid,            \* committed store when insert_block was entered
    failed_op,      \* the write that raised in the last insert_block
    ev,             \* outcome of the last step
    failed,         \* heights whose ingestion failed in the running/last sync
    attempted,      \* heights requested from the remote in the running/last sync
    args,           \* arguments of the running/last sync_blocks call
    fails,          \* RPC and storage errors raised so far
    runs,           \* sync_blocks calls so far
    log,            \* steps of the running/last sync, <<height, step>> in order
    audit           \* state of the ReorgChecker call in progress and its last report

vars == <<chain, skew, reorgs, db, conn, pc, height, current_height, end_height,
          block_data, reorged, fork_height, detect, pre, mid, failed_op, ev,
          failed, attempted, args, fails, runs, log, audit>>

\* an optional argument of sync_blocks: None, or a given value
NoneArg == [given |-> FALSE, value |-> 0]
Some(v) == [given |-> TRUE, value |-> v]
\* Python truth value of an optional integer: None and 0 are false
Truthy(a) == a.given /\ a.value # 0

NoSkew == <<>>
NoBlock == [hash |-> <<>>, height |-> -1, previousblockhash |-> <<>>,
            chainwork |-> 0, difficulty |-> 0, tx |-> <<>>]

\* no ReorgChecker call has been made
NoReport == [kind |-> "none"]
NoAudit == [pc |-> "idle", calls |-> 0, mode |-> "none", kind |-> "none", num_blocks |-> 0,
            db_latest_height |-> -1, start_height |-> 0, height |-> 0,
            db_blocks |-> {}, bitcoind_blocks |-> {}, unreachable |-> {}, outcome |-> "none",
            block_report |-> NoReport, report |-> NoReport]

Max(S) == CHOOSE x \in S : \A y \in S : y <= x
Min(S) == CHOOSE x \in S : \A y \in S : x <= y
MinOf(a, b) == IF a <= b THEN a ELSE b

\* ---------------------------------------------------------------- remote node
\* A block hash commits to the whole chain below it: the hash at height h is
\* the sequence of branch bits of heights 0..h.
HashAt(c, h) == SubSeq(c, 1, h + 1)

tip == Len(chain) - 1

\* getblockchaininfo()['blocks']
get_latest_block_height == tip

\* vin/vout arrays of the transactions of a block: a coinbase transaction of
\* the block itself and one payment that every block of that height carries
\* (a payment is mined again in the replacement block after a reorg).
TxOf(hash, h) ==
    << [txid |-> <<"cb">> \o hash, vin |-> <<0>>,  vout |-> <<0, 1>>],
       [txid |-> <<"pay", h>>,   vin |-> <<0, 1>>, vout |-> <<0>>] >>

\* difficulty of a block: the two branches of a height differ in difficulty
Difficulty(hash) == IF hash = <<>> THEN 0 ELSE 1 + (hash[Len(hash)] % 2)

\* chainwork of a block: the work accumulated on its chain
RECURSIVE Chainwork(_)
Chainwork(hash) ==
    IF hash = <<>> THEN 0 ELSE Difficulty(hash) + Chainwork(SubSeq(hash, 1, Len(hash) - 1))

\* rpc_call('getblockhash', [h]) followed by fetch_block(hash): getblock verbosity 2
RemoteBlock(h) ==
    IF skew # NoSkew /\ skew[1] = h
    THEN [hash |-> HashAt(chain, h) \o <<2, skew[2]>>,
          height |-> h,
          previousblockhash |-> HashAt(chain, skew[2]),
          chainwork |-> Chainwork(HashAt(chain, h)),
          difficulty |-> Difficulty(HashAt(chain, h)),
          tx |-> TxOf(HashAt(chain, h) \o <<2, skew[2]>>, h)]
    ELSE [hash |-> HashAt(chain, h),
          height |-> h,
          previousblockhash |-> HashAt(chain, h - 1),
          chainwork |-> Chainwork(HashAt(chain, h)),
          difficulty |-> Difficulty(HashAt(chain, h)),
          tx |-> TxOf(HashAt(chain, h), h)]

\* ---------------------------------------------------------------- store
EmptyDb == [blocks |-> {}, transactions |-> {}, tx_inputs |-> EmptyBag, tx_outputs |-> EmptyBag]

\* schema: blocks(height unique, hash unique)
BlocksConflict(r, s) == r.height = s.height \/ r.hash = s.hash
\* schema: transactions(txid unique)
TransactionsConflict(r, s) == r.txid = s.txid

\* the row insert_block writes to blocks.  HashOfPrevious is the row with the
\* previous hash bound to the hash column.
HashOfPrevious(b) == [hash |-> b.previousblockhash, height |-> b.height,
                      previousblockhash |-> b.previousblockhash,
                      chainwork |-> b.chainwork, difficulty |-> b.difficulty]
BlockRow(b) == [hash |-> b.hash, height |-> b.height, previousblockhash |-> b.previousblockhash,
                chainwork |-> b.chainwork, difficulty |-> b.difficulty]

\* INSERT OR REPLACE INTO blocks
InsertOrReplaceBlock(c, b) ==
    [c EXCEPT !.blocks = {r \in @ : ~BlocksConflict(r, BlockRow(b))} \cup {BlockRow(b)}]

\* INSERT OR REPLACE INTO transactions
InsertOrReplaceTransaction(c, t) ==
    [c EXCEPT !.transactions = {r \in @ : ~TransactionsConflict(r, t)} \cup {t}]

\* INSERT INTO tx_inputs
insert_input(c, vin, txid) ==
    [c EXCEPT !.tx_inputs = @ (+) SetToBag({[txid |-> txid, vout |-> vin]})]

\* INSERT INTO tx_outputs
insert_output(c, vout, txid) ==
    [c EXCEPT !.tx_outputs = @ (+) SetToBag({[txid |-> txid, n |-> vout]})]

\* The writes of insert_block in the order the code issues them.
TxWrites(tx) ==
    << [op |-> "transaction", txid |-> tx.txid] >>
    \o [i \in 1..Len(tx.vin) |-> [op |-> "input", txid |-> tx.txid, v |-> tx.vin[i]]]
    \o [i \in 1..Len(tx.vout) |-> [op |-> "output", txid |-> tx.txid, v |-> tx.vout[i]]]

RECURSIVE AllTxWrites(_)
AllTxWrites(txs) == IF txs = <<>> THEN <<>> ELSE TxWrites(Head(txs)) \o AllTxWrites(Tail(txs))

BlockWrites(b) == << [op |-> "block"] >> \o AllTxWrites(b.tx)

ApplyWrite(c, b, w) ==
    CASE w.op = "block" -> InsertOrReplaceBlock(c, b)
      [] w.op = "transaction" ->
            InsertOrReplaceTransaction(c, [txid |-> w.txid, block_hash |-> b.hash, block_height |-> b.height])
      [] w.op = "input" -> insert_input(c, w.v, w.txid)
      [] w.op = "output" -> insert_output(c, w.v, w.txid)

RECURSIVE ApplyWrites(_, _, _, _)
ApplyWrites(c, b, ws, n) ==
    IF n = 0 THEN c ELSE ApplyWrites(ApplyWrite(c, b, Head(ws)), b, Tail(ws), n - 1)

\* conn.commit() / conn.rollback(): the pair <<committed, connection view>> afterwards
Commit(d, c) == <<c, c>>
\* a rollback that keeps the pending writes and lets them reach the file
RollbackKeepsWrites(d, c) == <<c, c>>
Rollback(d, c) == <<d, d>>

\* insert_block: the first n writes succeed; when n is less than the number of
\* writes the next one raises, the except branch rolls back and re-raises.
insert_block(d, c, b, n) ==
    LET ws == BlockWrites(b)
        w == ApplyWrites(c, b, ws, n)
    IN IF n = Len(ws)
       THEN [st |-> Commit(d, w), raised |-> FALSE, op |-> "none"]
       ELSE [st |-> Rollback(d, w), raised |-> TRUE, op |-> ws[n + 1].op]

\* SELECT MAX(height) FROM blocks, with "if result and result['max_height'] else -1"
get_db_latest_height(d) ==
    IF d.blocks = {} THEN -1
    ELSE LET m == Max({r.height : r \in d.blocks})
         IN IF m # 0 THEN m ELSE -1

\* rows of bag B whose txid is not in S
DeleteByTxid(B, S) == [r \in {x \in DOMAIN B : x.txid \notin S} |-> B[r]]

\* the i-th DELETE statement of handle_reorg, for fork point f
\* DeleteFromFork is the same statements with height >= f in place of height > f.
DeleteFromFork(c, i, f) ==
    LET stale == {t.txid : t \in {r \in c.transactions : r.block_height >= f}}
    IN CASE i = 1 -> [c EXCEPT !.blocks = {r \in @ : ~(r.height >= f)}]
         [] i = 2 -> [c EXCEPT !.transactions = {r \in @ : ~(r.block_height >= f)}]
         [] i = 3 -> [c EXCEPT !.tx_inputs = DeleteByTxid(@, stale)]
         [] i = 4 -> [c EXCEPT !.tx_outputs = DeleteByTxid(@, stale)]
DeleteStmt(c, i, f) ==
    LET stale == {t.txid : t \in {r \in c.transactions : r.block_height > f}}
    IN CASE i = 1 -> [c EXCEPT !.blocks = {r \in @ : ~(r.height > f)}]
         [] i = 2 -> [c EXCEPT !.transactions = {r \in @ : ~(r.block_height > f)}]
         [] i = 3 -> [c EXCEPT !.tx_inputs = DeleteByTxid(@, stale)]
         [] i = 4 -> [c EXCEPT !.tx_outputs = DeleteByTxid(@, stale)]

RECURSIVE ApplyDeletes(_, _, _, _)
ApplyDeletes(c, f, i, n) ==
    IF i > n THEN c ELSE ApplyDeletes(DeleteStmt(c, i, f), f, i + 1, n)

\* the backward search of handle_reorg: the value of fork_height after the loop
\* NearestBelow is the search without the comparison of hashes of line 268: it
\* stops at the first stored height below the incoming block.
NearestBelow(c, new_block) ==
    LET F == {k \in 0..(new_block.height - 1) : \E r \in c.blocks : r.height = k}
    IN IF F = {} THEN -1 ELSE Max(F)
ForkSearch(c, new_block) ==
    LET F == {k \in 0..(new_block.height - 1) :
                \E r \in c.blocks : r.height = k /\ r.hash = new_block.previousblockhash}
    IN IF F = {} THEN -1 ELSE Max(F)

\* handle_reorg(conn, new_block).  n = -1: a SELECT raises; 0..3: the DELETE
\* number n+1 raises; 4: no statement raises.
\* NoContinuityTest is handle_reorg without the test of line 257: the backward
\* search runs even when the previous block is stored at the height below.
NoContinuityTest(d, c, new_block, n) ==
    LET prev_hash == new_block.previousblockhash
        f == ForkSearch(c, new_block)
    IN IF prev_hash = <<>>
       THEN [st |-> <<d, c>>, result |-> FALSE, fork_height |-> -1, branch |-> "no_prev"]
       ELSE IF n = -1
       THEN [st |-> Rollback(d, c), result |-> FALSE, fork_height |-> -1, branch |-> "raised"]
       ELSE IF f >= 0 /\ n = 4
       THEN [st |-> Commit(d, ApplyDeletes(c, f, 1, 4)), result |-> TRUE,
             fork_height |-> f, branch |-> "truncated"]
       ELSE IF f >= 0
       THEN [st |-> Rollback(d, ApplyDeletes(c, f, 1, n)), result |-> FALSE,
             fork_height |-> f, branch |-> "raised"]
       ELSE [st |-> <<d, c>>, result |-> FALSE, fork_height |-> -1, branch |-> "no_fork"]
handle_reorg(d, c, new_block, n) ==
    LET prev_hash == new_block.previousblockhash
        prev_block == {r \in c.blocks : r.hash = prev_hash}
        f == ForkSearch(c, new_block)
    IN IF prev_hash = <<>>
       THEN [st |-> <<d, c>>, result |-> FALSE, fork_height |-> -1, branch |-> "no_prev"]
       ELSE IF n = -1
       THEN [st |-> Rollback(d, c), result |-> FALSE, fork_height |-> -1, branch |-> "raised"]
       ELSE IF \E r \in prev_block : r.height = new_block.height - 1
       THEN [st |-> <<d, c>>, result |-> FALSE, fork_height |-> -1, branch |-> "continuous"]
       ELSE IF f >= 0 /\ n = 4
       THEN [st |-> Commit(d, ApplyDeletes(c, f, 1, 4)), result |-> TRUE,
             fork_height |-> f, branch |-> "truncated"]
       ELSE IF f >= 0
       THEN [st |-> Rollback(d, ApplyDeletes(c, f, 1, n)), result |-> FALSE,
             fork_height |-> f, branch |-> "raised"]
       ELSE [st |-> <<d, c>>, result |-> FALSE, fork_height |-> -1, branch |-> "no_fork"]

\* ---------------------------------------------------------------- remote actions
\* The remote changes between two sync runs.
RemoteMine ==
    /\ pc = "idle"
    /\ tip < MaxHeight
    /\ chain' = Append(chain, 0)
    /\ UNCHANGED <<skew, reorgs, db, conn, pc, height, current_height, end_height,
                   block_data, reorged, fork_height, detect, pre, mid, failed_op, ev,
                   failed, attempted, args, fails, runs, log, audit>>

\* the remote replaces its blocks from height d upward
RemoteReorg(d) ==
    /\ pc = "idle"
    /\ reorgs < MaxReorgs
    /\ d \in 0..tip
    /\ chain' = [chain EXCEPT ![d + 1] = 1 - @]
    /\ reorgs' = reorgs + 1
    /\ UNCHANGED <<skew, db, conn, pc, height, current_height, end_height,
                   block_data, reorged, fork_height, detect, pre, mid, failed_op, ev,
                   failed, attempted, args, fails, runs, log, audit>>

\* the remote answers height h with a previousblockhash that belongs to height k < h-1
RemoteSkew(h, k) ==
    /\ pc = "idle"
    /\ skew = NoSkew
    /\ h \in 2..MaxHeight /\ k \in 0..(h - 2)
    /\ skew' = <<h, k>>
    /\ UNCHANGED <<chain, reorgs, db, conn, pc, height, current_height, end_height,
                   block_data, reorged, fork_height, detect, pre, mid, failed_op, ev,
                   failed, attempted, args, fails, runs, log, audit>>

RemoteUnskew ==
    /\ pc = "idle"
    /\ skew # NoSkew
    /\ skew' = NoSkew
    /\ UNCHANGED <<chain, reorgs, db, conn, pc, height, current_height, end_height,
                   block_data, reorged, fork_height, detect, pre, mid, failed_op, ev,
                   failed, attempted, args, fails, runs, log, audit>>

\* ---------------------------------------------------------------- sync_blocks
StartArgs == {NoneArg} \cup {Some(v) : v \in 0..MaxHeight}
MaxBlocksArgs == {NoneArg} \cup {Some(v) : v \in 0..MaxBlocksArg}

\* current_height = start_height or self.get_db_latest_height() + 1
StartHeight(start_height, d) ==
    IF Truthy(start_height) THEN start_height.value ELSE get_db_latest_height(d) + 1

\* end_height
EndHeight(cur, max_blocks, latest_height) ==
    IF Truthy(max_blocks) THEN MinOf(cur + max_blocks.value - 1, latest_height) ELSE latest_height

\* entry of sync_blocks up to the first loop test; ok = FALSE: getblockchaininfo
\* raises and sync_blocks re-raises
SyncEnter(start_height, max_blocks, ok) ==
    /\ pc = "idle"
    /\ ok \/ fails < MaxFailures
    /\ fails' = IF ok THEN fails ELSE fails + 1
    /\ runs' = runs + 1
    /\ args' = [start_height |-> start_height, max_blocks |-> max_blocks]
    /\ failed' = {}
    /\ attempted' = {}
    /\ block_data' = NoBlock
    /\ reorged' = FALSE
    /\ fork_height' = -1
    /\ detect' = "none"
    /\ failed_op' = "none"
    /\ pre' = db
    /\ mid' = db
    /\ IF ok
       THEN /\ current_height' = StartHeight(start_height, db)
            /\ end_height' = EndHeight(current_height', max_blocks, get_latest_block_height)
            /\ height' = current_height'
            /\ conn' = db
            /\ pc' = "loop"
            /\ ev' = "started"
       ELSE /\ ev' = "sync_raised"
            /\ UNCHANGED <<current_height, end_height, height, conn, pc>>
    /\ log' = <<>>
    /\ UNCHANGED <<chain, skew, reorgs, db, audit>>

SyncStart(start_height, max_blocks, ok) ==
    /\ runs < MaxRuns
    /\ SyncEnter(start_height, max_blocks, ok)

\* the statement sync_blocks executes next in the loop body: after the fetch
\* the detector, after the detector the insert, after the insert (and after
\* any raised error, by the except branch) the next loop test
SkipDetector(step, ok) ==
    CASE step = "fetch" /\ ok -> "insert"
      [] step = "fetch" /\ ~ok -> "loop"
      [] step = "reorg" -> "insert"
      [] step = "insert" -> "loop"
StepAfter(step, ok) ==
    CASE step = "fetch" /\ ok -> "reorg"
      [] step = "fetch" /\ ~ok -> "loop"
      [] step = "reorg" -> "insert"
      [] step = "insert" -> "loop"

\* the iteration's getblockhash + fetch_block; ok = FALSE: one of them raises
\* and the except branch of the loop continues with the next height
Fetch(ok) ==
    /\ pc = "loop"
    /\ height <= end_height
    /\ attempted' = attempted \cup {height}
    /\ ok \/ fails < MaxFailures
    /\ fails' = IF ok THEN fails ELSE fails + 1
    /\ IF ok
       THEN /\ block_data' = RemoteBlock(height)
            /\ pre' = db
            /\ ev' = "fetched"
            /\ UNCHANGED <<height, failed>>
       ELSE /\ failed' = failed \cup {height}
            /\ height' = height + 1
            /\ ev' = "fetch_failed"
            /\ UNCHANGED <<block_data, pre>>
    /\ pc' = StepAfter("fetch", ok)
    /\ log' = Append(log, <<height, ev'>>)
    /\ UNCHANGED <<chain, skew, reorgs, db, conn, current_height, end_height,
                   reorged, fork_height, detect, mid, failed_op, args, runs, audit>>

\* the call of handle_reorg in the loop
HandleReorg(n) ==
    /\ pc = "reorg"
    /\ n = 4 \/ fails < MaxFailures
    /\ LET r == handle_reorg(db, conn, block_data, n)
       IN /\ fails' = IF r.branch = "raised" THEN fails + 1 ELSE fails
          /\ db' = r.st[1]
          /\ conn' = r.st[2]
          /\ mid' = r.st[1]
          /\ reorged' = r.result
          /\ fork_height' = r.fork_height
          /\ detect' = r.branch
          /\ ev' = IF r.result THEN "truncated" ELSE "checked"
    /\ pc' = StepAfter("reorg", TRUE)
    /\ log' = Append(log, <<height, "detected">>)
    /\ UNCHANGED <<chain, skew, reorgs, height, current_height, end_height,
                   block_data, pre, failed_op, failed, attempted, args, runs, audit>>

\* the number of writes insert_block issues for the fetched block
AllWrites == Len(BlockWrites(block_data))

\* the call of insert_block in the loop; n writes succeed.  When insert_block
\* raises, the except branch of the loop continues with the next height.
InsertBlock(n) ==
    /\ pc = "insert"
    /\ n \in 0..AllWrites
    /\ n = AllWrites \/ fails < MaxFailures
    /\ LET r == insert_block(db, conn, block_data, n)
       IN /\ db' = r.st[1]
          /\ conn' = r.st[2]
          /\ failed_op' = r.op
          /\ fails' = IF r.raised THEN fails + 1 ELSE fails
          /\ ev' = IF r.raised THEN "insert_failed" ELSE "inserted"
          /\ failed' = IF r.raised THEN failed \cup {height} ELSE failed
    /\ height' = height + 1
    /\ pc' = StepAfter("insert", TRUE)
    /\ log' = Append(log, <<height, ev'>>)
    /\ UNCHANGED <<chain, skew, reorgs, current_height, end_height,
                   block_data, reorged, fork_height, detect, pre, mid, attempted, args, runs, audit>>

\* the loop is exhausted: conn.close() and sync_blocks returns
SyncReturn ==
    /\ pc = "loop"
    /\ height > end_height
    /\ pc' = "idle"
    /\ conn' = db
    /\ ev' = "sync_returned"
    /\ UNCHANGED <<chain, skew, reorgs, db, height, current_height, end_height,
                   block_data, reorged, fork_height, detect, pre, mid, failed_op,
                   failed, attempted, args, fails, runs, log, audit>>

Init ==
    /\ chain = <<0>>
    /\ skew = NoSkew
    /\ reorgs = 0
    /\ db = EmptyDb
    /\ conn = EmptyDb
    /\ pc = "idle"
    /\ height = 0
    /\ current_height = 0
    /\ end_height = -1
    /\ block_data = NoBlock
    /\ reorged = FALSE
    /\ fork_height = -1
    /\ detect = "none"
    /\ pre = EmptyDb
    /\ mid = EmptyDb
    /\ failed_op = "none"
    /\ ev = "init"
    /\ failed = {}
    /\ attempted = {}
    /\ args = [start_height |-> NoneArg, max_blocks |-> NoneArg]
    /\ fails = 0
    /\ runs = 0
    /\ log = <<>>
    /\ audit = NoAudit

\* every remote behaviour, every argument of sync_blocks, RPC and storage errors
Next ==
    \/ RemoteMine
    \/ \E d \in 0..MaxHeight : RemoteReorg(d)
    \/ \E h \in 2..MaxHeight, k \in 0..MaxHeight : RemoteSkew(h, k)
    \/ RemoteUnskew
    \/ \E s \in StartArgs, m \in MaxBlocksArgs, ok \in BOOLEAN : SyncStart(s, m, ok)
    \/ \E ok \in BOOLEAN : Fetch(ok)
    \/ \E n \in -1..4 : HandleReorg(n)
    \/ \E n \in 0..AllWrites : InsertBlock(n)
    \/ SyncReturn

Spec == Init /\ [][Next]_vars

\* an honest remote (it mines and reorganises), sync_blocks called without a
\* start override, no RPC or storage error
NextHonest ==
    \/ RemoteMine
    \/ \E d \in 0..MaxHeight : RemoteReorg(d)
    \/ \E m \in MaxBlocksArgs : SyncStart(NoneArg, m, TRUE)
    \/ Fetch(TRUE)
    \/ HandleReorg(4)
    \/ InsertBlock(AllWrites)
    \/ SyncReturn

SpecHonest == Init /\ [][NextHonest]_vars

\* as NextHonest, with RPC and storage errors
NextDefault ==
    \/ RemoteMine
    \/ \E d \in 0..MaxHeight : RemoteReorg(d)
    \/ \E m \in MaxBlocksArgs, ok \in BOOLEAN : SyncStart(NoneArg, m, ok)
    \/ \E ok \in BOOLEAN : Fetch(ok)
    \/ \E n \in -1..4 : HandleReorg(n)
    \/ \E n \in 0..AllWrites : InsertBlock(n)
    \/ SyncReturn

SpecDefault == Init /\ [][NextDefault]_vars

\* a remote that mines and may answer a misplaced previousblockhash, RPC and
\* storage errors, sync_blocks called without a start override
NextSkew ==
    \/ RemoteMine
    \/ \E h \in 2..MaxHeight, k \in 0..MaxHeight : RemoteSkew(h, k)
    \/ RemoteUnskew
    \/ \E m \in MaxBlocksArgs, ok \in BOOLEAN : SyncStart(NoneArg, m, ok)
    \/ \E ok \in BOOLEAN : Fetch(ok)
    \/ \E n \in -1..4 : HandleReorg(n)
    \/ \E n \in 0..AllWrites : InsertBlock(n)
    \/ SyncReturn

SpecSkew == Init /\ [][NextSkew]_vars

\* resumability scenario: empty store, a fixed remote tip, no error, and
\* successive calls sync_blocks(max_blocks=m) with the same m
InitResume ==
    /\ chain \in {[i \in 1..(t + 1) |-> 0] : t \in 0..ResumeTip}
    /\ args \in {[start_height |-> NoneArg, max_blocks |-> Some(m)] : m \in 1..ResumeMaxBlocks}
    /\ skew = NoSkew
    /\ reorgs = 0
    /\ db = EmptyDb
    /\ conn = EmptyDb
    /\ pc = "idle"
    /\ height = 0
    /\ current_height = 0
    /\ end_height = -1
    /\ block_data = NoBlock
    /\ reorged = FALSE
    /\ fork_height = -1
    /\ detect = "none"
    /\ pre = EmptyDb
    /\ mid = EmptyDb
    /\ failed_op = "none"
    /\ ev = "init"
    /\ failed = {}
    /\ attempted = {}
    /\ fails = 0
    /\ runs = 0
    /\ log = <<>>
    /\ audit = NoAudit

ResumeSync ==
    /\ runs < ResumeRuns
    /\ SyncEnter(NoneArg, args.max_blocks, TRUE)

NextResume ==
    \/ ResumeSync
    \/ Fetch(TRUE)
    \/ HandleReorg(4)
    \/ InsertBlock(AllWrites)
    \/ SyncReturn

SpecResume == InitResume /\ [][NextResume]_vars

\* ---------------------------------------------------------------- properties
Heights(d) == {r.height : r \in d.blocks}
StoredAt(d, h) == {r \in d.blocks : r.height = h}

\* every stored block above the lowest stored height links to the stored block below it
Linked(d) ==
    \A r \in d.blocks :
        r.height > Min(Heights(d)) =>
            \E s \in d.blocks : s.height = r.height - 1 /\ s.hash = r.previousblockhash

\* heights are unique and form a gap-free range
Contiguous(d) ==
    /\ \A r, s \in d.blocks : r.height = s.height => r = s
    /\ d.blocks # {} => Heights(d) = Min(Heights(d))..Max(Heights(d))

\* C1: after a sync_blocks run returns and after handle_reorg truncates, every
\* stored block above the start height has previousblockhash equal to the hash
\* of the stored block one height below.
C1_ChainLinkage == ev \in {"sync_returned", "truncated"} => Linked(db)

\* C2: after every sync_blocks run that returns, stored heights are unique and
\* form a gap-free range, whatever RPC or storage operation failed in the run.
C2_Contiguity == ev = "sync_returned" => Contiguous(db)

\* the store is a linked chain 0..N
IsChain(d) == d.blocks # {} /\ Contiguous(d) /\ Linked(d) /\ Min(Heights(d)) = 0

\* the remote agrees with store d below height h and has another block at h
\* with the same previousblockhash
DivergesAt(d, b) ==
    /\ \A k \in 0..(b.height - 1) : \E r \in StoredAt(d, k) : r.hash = HashAt(chain, k)
    /\ \E r \in StoredAt(d, b.height) :
          r.hash # b.hash /\ r.previousblockhash = b.previousblockhash

\* C3: when the store holds a chain 0..N and the remote diverges at height d <= N,
\* running handle_reorg and insert_block on the remote block of height d leaves
\* no stored block above d.
C3_ReorgResolution ==
    (/\ ev = "inserted"
     /\ IsChain(pre)
     /\ Max(Heights(pre)) > block_data.height
     /\ DivergesAt(pre, block_data))
        => \A r \in db.blocks : r.height <= block_data.height

\* heights below h at which the store d holds the remote's block
Agree(d, h) == {k \in 0..(h - 1) : \E r \in StoredAt(d, k) : r.hash = HashAt(chain, k)}

\* C4: when the stored hash at h-1 differs from the incoming previousblockhash,
\* the fork point chosen by handle_reorg is the highest height below h at which
\* the remote hash equals the stored hash, whenever there is one.
C4_ForkPoint ==
    (/\ pc = "insert"
     /\ detect \in {"truncated", "no_fork"}
     /\ \E r \in StoredAt(pre, block_data.height - 1) : r.hash # block_data.previousblockhash
     /\ Agree(pre, block_data.height) # {})
        => fork_height = Max(Agree(pre, block_data.height))

\* C5: when handle_reorg declares a divergence for a block and finds no fork
\* point, the block is not persisted.
C5_Unresolved == detect = "no_fork" => \A r \in db.blocks : r.hash # block_data.hash

\* txids of the transactions of store d that belong to blocks above height f
TxidsAbove(d, f) == {t.txid : t \in {r \in d.transactions : r.block_height > f}}

\* C6: after handle_reorg truncates at fork point f the store holds no block
\* above f and no transaction, input or output row of a removed block.
C6_CascadeRemoval ==
    ev = "truncated" =>
        /\ \A r \in db.blocks : r.height <= fork_height
        /\ \A t \in db.transactions : t.block_height <= fork_height
        /\ \A i \in DOMAIN db.tx_inputs : i.txid \notin TxidsAbove(pre, fork_height)
        /\ \A o \in DOMAIN db.tx_outputs : o.txid \notin TxidsAbove(pre, fork_height)

\* number of rows of bag B with the given txid
RowsOf(B, txid) == BagCardinality([r \in {x \in DOMAIN B : x.txid = txid} |-> B[r]])

\* store d holds the block b exactly once: one block row, one transaction row per
\* txid, as many input and output rows as the vin and vout arrays have elements
ExactlyOnce(d, b) ==
    /\ Cardinality(StoredAt(d, b.height)) = 1
    /\ \A i \in 1..Len(b.tx) :
          /\ Cardinality({t \in d.transactions : t.txid = b.tx[i].txid}) = 1
          /\ RowsOf(d.tx_inputs, b.tx[i].txid) = Len(b.tx[i].vin)
          /\ RowsOf(d.tx_outputs, b.tx[i].txid) = Len(b.tx[i].vout)

\* C7: ingesting a height again with the same payload leaves one block row, one
\* transaction row per txid and input/output rows matching the source arrays.
C7_Idempotence ==
    (ev = "inserted" /\ BlockRow(block_data) \in pre.blocks /\ ExactlyOnce(pre, block_data))
        => ExactlyOnce(db, block_data)

\* C8: when a write of insert_block raises, the committed store equals the
\* committed store at the call of insert_block and the error reaches the loop.
C8_AtomicPersistence ==
    ev = "insert_failed" => (db = mid /\ block_data.height \in failed)

\* a write raised after the block row, a transaction row and input rows were written
C8_Witness == ev = "insert_failed" /\ failed_op = "output" /\ db = mid

\* C9: from an empty store, the k-th call sync_blocks(max_blocks=m) ingests
\* exactly the heights (k-1)*m .. min(k*m-1, T).
C9_Resumability ==
    (pc = "idle" /\ runs >= 1) =>
        attempted = ((runs - 1) * args.max_blocks.value)..MinOf(runs * args.max_blocks.value - 1, tip)

\* C10: when the ingestion of a height fails, no greater height is requested in
\* that run and the run does not return normally.
C10_AbortOnFailure ==
    failed # {} =>
        /\ \A h \in attempted : h <= Min(failed)
        /\ ev # "sync_returned"

\* every transaction row names a stored block row by hash and height, and
\* every input and output row names a stored transaction row
Owned(d) ==
    /\ \A t \in d.transactions :
           \E b \in d.blocks : b.hash = t.block_hash /\ b.height = t.block_height
    /\ \A i \in DOMAIN d.tx_inputs : \E t \in d.transactions : t.txid = i.txid
    /\ \A o \in DOMAIN d.tx_outputs : \E t \in d.transactions : t.txid = o.txid

\* C11: in every reachable store state, after ingestions, re-ingestions of a
\* height with another hash and truncations, every stored transaction belongs
\* to a stored block and every stored input and output to a stored transaction
C11_Ownership == Owned(db)

\* ---------------------------------------------------------------------------
\* ReorgChecker (reorg_check.py): the auditor. It opens a connection of its
\* own, so every SELECT reads the committed store.

MaxWindow == 3      \* num_blocks ranges over 1..MaxWindow
MaxAudits == 1      \* calls of the auditor in one behaviour

Abs(x) == IF x < 0 THEN -x ELSE x

Has(rows, h) == \E r \in rows : r.height = h
At(rows, h) == CHOOSE r \in rows : r.height = h

\* round(num / den * 100, 2) in hundredths, den > 0; no quotient below is
\* halfway between two hundredths for den < 32
Round2(num, den) == (20000 * num + den) \div (2 * den)

\* the heights both loops of a check range over
AuditWindow(a) == a.start_height .. a.db_latest_height

\* the columns the checks SELECT from blocks WHERE height >= start_height
SelectBlocks(d, start_height) == {r \in d.blocks : r.height >= start_height}

\* what getblockhash(height) and getblock(hash, 1) give a check for a height
BitcoindBlock(h) ==
    [height |-> h, hash |-> RemoteBlock(h).hash,
     previousblockhash |-> RemoteBlock(h).previousblockhash,
     chainwork |-> RemoteBlock(h).chainwork, difficulty |-> RemoteBlock(h).difficulty]

\* check_block_consistency, the comparison loop: the heights of the window
\* absent from the store
MissingBlocks(a) == {h \in AuditWindow(a) : ~Has(a.db_blocks, h)}

\* the heights the comparison loop reaches past its two continue statements
Compared(a) == {h \in AuditWindow(a) : Has(a.db_blocks, h) /\ Has(a.bitcoind_blocks, h)}

\* check_block_consistency, the comparison loop: the records appended to
\* inconsistencies
\* PrevUnguarded is the same loop without `prev_height in bitcoind_blocks`.
PrevUnguarded(a) ==
    {[height |-> h, type |-> "hash_mismatch"] :
        h \in {k \in Compared(a) : At(a.db_blocks, k).hash # At(a.bitcoind_blocks, k).hash}}
    \cup
    {[height |-> h, type |-> "prev_hash_mismatch"] :
        h \in {k \in Compared(a) :
                 /\ k > a.start_height
                 /\ Has(a.db_blocks, k - 1)
                 /\ At(a.db_blocks, k - 1).hash # At(a.bitcoind_blocks, k).previousblockhash}}
BlockInconsistencies(a) ==
    {[height |-> h, type |-> "hash_mismatch"] :
        h \in {k \in Compared(a) : At(a.db_blocks, k).hash # At(a.bitcoind_blocks, k).hash}}
    \cup
    {[height |-> h, type |-> "prev_hash_mismatch"] :
        h \in {k \in Compared(a) :
                 /\ k > a.start_height
                 /\ Has(a.db_blocks, k - 1)
                 /\ Has(a.bitcoind_blocks, k - 1)
                 /\ At(a.db_blocks, k - 1).hash # At(a.bitcoind_blocks, k).previousblockhash}}

\* check_chain_work, the comparison loop
ChainworkInconsistencies(a) ==
    {[height |-> h, type |-> "chainwork_mismatch"] :
        h \in {k \in Compared(a) : At(a.db_blocks, k).chainwork # At(a.bitcoind_blocks, k).chainwork}}
    \cup
    {[height |-> h, type |-> "difficulty_mismatch"] :
        h \in {k \in Compared(a) :
                 1000 * Abs(At(a.db_blocks, k).difficulty - At(a.bitcoind_blocks, k).difficulty) > 1}}

\* consistency_percentage / chainwork_consistency, rounded, in hundredths
ConsistencyPercentage(total, inconsistent) ==
    IF total > 0 THEN Round2(total - inconsistent, total) ELSE 0

\* the status field of both reports
Status(inconsistent, missing) == IF inconsistent = 0 THEN "healthy" ELSE "inconsistent"

\* the report of check_block_consistency
\* CountsWindow is the same report with the size of the window as its total.
CountsWindow(a) ==
    LET total == Cardinality(AuditWindow(a))
        inc == BlockInconsistencies(a)
        missing == MissingBlocks(a)
    IN [kind |-> "block",
        start_height |-> a.start_height,
        end_height |-> a.db_latest_height,
        total |-> total,
        percentage |-> ConsistencyPercentage(total, Cardinality(inc)),
        total_inconsistencies |-> Cardinality(inc),
        missing_count |-> Cardinality(missing),
        inconsistencies |-> inc,
        missing_blocks |-> missing,
        status |-> Status(Cardinality(inc), Cardinality(missing))]
BlockReport(a) ==
    LET total == Cardinality(a.bitcoind_blocks)
        inc == BlockInconsistencies(a)
        missing == MissingBlocks(a)
    IN [kind |-> "block",
        start_height |-> a.start_height,
        end_height |-> a.db_latest_height,
        total |-> total,
        percentage |-> ConsistencyPercentage(total, Cardinality(inc)),
        total_inconsistencies |-> Cardinality(inc),
        missing_count |-> Cardinality(missing),
        inconsistencies |-> inc,
        missing_blocks |-> missing,
        status |-> Status(Cardinality(inc), Cardinality(missing))]

\* the report of check_chain_work
ChainworkReport(a) ==
    LET total == Cardinality(a.bitcoind_blocks)
        inc == ChainworkInconsistencies(a)
    IN [kind |-> "chainwork",
        start_height |-> a.start_height,
        end_height |-> a.db_latest_height,
        total |-> total,
        percentage |-> ConsistencyPercentage(total, Cardinality(inc)),
        total_inconsistencies |-> Cardinality(inc),
        missing_count |-> 0,
        inconsistencies |-> inc,
        missing_blocks |-> {},
        status |-> Status(Cardinality(inc), 0)]

\* the report of run_full_consistency_check
FullReport(block_report, chainwork_report) ==
    [kind |-> "full",
     start_height |-> block_report.start_height,
     end_height |-> block_report.end_height,
     total |-> block_report.total,
     percentage |-> block_report.percentage,
     total_inconsistencies |->
         block_report.total_inconsistencies + chainwork_report.total_inconsistencies,
     missing_count |-> block_report.missing_count,
     inconsistencies |-> block_report.inconsistencies \cup chainwork_report.inconsistencies,
     missing_blocks |-> block_report.missing_blocks,
     status |-> IF block_report.total_inconsistencies = 0
                   /\ chainwork_report.total_inconsistencies = 0
                THEN "healthy" ELSE "inconsistent"]

\* the store after a statement of the auditor: its statements are SELECTs
\* and conn.close(), with no write and no commit among them
TrimToWindow(d, a) == [d EXCEPT !.blocks = {r \in @ : r.height >= a.start_height}]
AuditorStore(d, a) == d

AuditModes == {"block", "chainwork", "full"}

\* a call of check_block_consistency, check_chain_work or
\* run_full_consistency_check with num_blocks
AuditCall(mode, num_blocks) ==
    /\ audit.pc = "idle"
    /\ audit.calls < MaxAudits
    /\ audit' = [NoAudit EXCEPT !.pc = "begin", !.calls = audit.calls + 1,
                                !.mode = mode, !.num_blocks = num_blocks,
                                !.kind = IF mode = "chainwork" THEN "chainwork" ELSE "block"]
    /\ db' = AuditorStore(db, audit)
    /\ UNCHANGED <<chain, skew, reorgs, conn, pc, height, current_height, end_height,
                   block_data, reorged, fork_height, detect, pre, mid, failed_op, ev,
                   failed, attempted, args, fails, runs, log>>

\* start_height = max(0, db_latest_height - num_blocks + 1)
\* Unclipped is the same difference without the max.
Unclipped(db_latest_height, num_blocks) == db_latest_height - num_blocks + 1
WindowStart(db_latest_height, num_blocks) == Max({0, db_latest_height - num_blocks + 1})

\* SELECT MAX(height): an empty store raises, and the except branch re-raises
AuditBegin ==
    /\ audit.pc = "begin"
    /\ IF db.blocks = {}
       THEN audit' = [audit EXCEPT !.pc = "idle", !.outcome = "raised"]
       ELSE LET db_latest_height == Max({r.height : r \in db.blocks})
            IN audit' = [audit EXCEPT !.pc = "read",
                                      !.db_latest_height = db_latest_height,
                                      !.start_height = WindowStart(db_latest_height, audit.num_blocks)]
    /\ db' = AuditorStore(db, audit)
    /\ UNCHANGED <<chain, skew, reorgs, conn, pc, height, current_height, end_height,
                   block_data, reorged, fork_height, detect, pre, mid, failed_op, ev,
                   failed, attempted, args, fails, runs, log>>

\* SELECT ... FROM blocks WHERE height >= start_height
AuditRead ==
    /\ audit.pc = "read"
    /\ audit' = [audit EXCEPT !.pc = "fetch",
                              !.db_blocks = SelectBlocks(db, audit.start_height),
                              !.bitcoind_blocks = {},
                              !.unreachable = {},
                              !.height = audit.start_height]
    /\ db' = AuditorStore(db, audit)
    /\ UNCHANGED <<chain, skew, reorgs, conn, pc, height, current_height, end_height,
                   block_data, reorged, fork_height, detect, pre, mid, failed_op, ev,
                   failed, attempted, args, fails, runs, log>>

\* one iteration of the remote loop: getblockhash and getblock, or an RPC
\* error, which is logged and skipped
AuditFetch(ok) ==
    /\ audit.pc = "fetch"
    /\ audit.height <= audit.db_latest_height
    /\ ok \/ fails < MaxFailures
    /\ fails' = IF ok THEN fails ELSE fails + 1
    /\ audit' = [audit EXCEPT !.height = @ + 1,
                              !.bitcoind_blocks =
                                  IF ok /\ audit.height <= tip
                                  THEN @ \cup {BitcoindBlock(audit.height)} ELSE @,
                              !.unreachable =
                                  IF ok /\ audit.height <= tip
                                  THEN @ ELSE @ \cup {audit.height}]
    /\ db' = AuditorStore(db, audit)
    /\ UNCHANGED <<chain, skew, reorgs, conn, pc, height, current_height, end_height,
                   block_data, reorged, fork_height, detect, pre, mid, failed_op, ev,
                   failed, attempted, args, runs, log>>

\* the comparison loop, conn.close() and the report; run_full_consistency_check
\* goes on with check_chain_work after check_block_consistency returned
AuditCompare ==
    /\ audit.pc = "fetch"
    /\ audit.height > audit.db_latest_height
    /\ audit' =
         IF audit.kind = "block"
         THEN IF audit.mode = "full"
              THEN [audit EXCEPT !.pc = "begin", !.kind = "chainwork",
                                 !.block_report = BlockReport(audit)]
              ELSE [audit EXCEPT !.pc = "idle", !.outcome = "returned",
                                 !.report = BlockReport(audit)]
         ELSE IF audit.mode = "full"
              THEN [audit EXCEPT !.pc = "idle", !.outcome = "returned",
                                 !.report = FullReport(audit.block_report, ChainworkReport(audit))]
              ELSE [audit EXCEPT !.pc = "idle", !.outcome = "returned",
                                 !.report = ChainworkReport(audit)]
    /\ db' = AuditorStore(db, audit)
    /\ UNCHANGED <<chain, skew, reorgs, conn, pc, height, current_height, end_height,
                   block_data, reorged, fork_height, detect, pre, mid, failed_op, ev,
                   failed, attempted, args, fails, runs, log>>

\* the auditor called at any moment of syncs that follow a growing remote
NextAudit ==
    \/ RemoteMine
    \/ SyncStart(NoneArg, NoneArg, TRUE)
    \/ Fetch(TRUE)
    \/ HandleReorg(4)
    \/ InsertBlock(AllWrites)
    \/ SyncReturn
    \/ \E mode \in AuditModes, num_blocks \in 1..MaxWindow : AuditCall(mode, num_blocks)
    \/ AuditBegin
    \/ AuditRead
    \/ AuditFetch(TRUE)
    \/ AuditCompare

SpecAudit == Init /\ [][NextAudit]_vars

\* C12: a call of the auditor, whether it returns or raises and however its
\* statements interleave with a running sync, leaves the store as the sync
\* alone made it: no step of the auditor changes the store
C12_AuditorNeverWrites == [][audit' # audit => db' = db]_vars

\* an audit of two heights returned while a sync was in its loop and had
\* committed a block after the audit read the store
C12_Witness ==
    /\ pc # "idle"
    /\ audit.outcome = "returned"
    /\ audit.report.total = 2
    /\ SelectBlocks(db, audit.start_height) # audit.db_blocks

\* the auditor called between syncs: RPC and storage errors on both sides,
\* the remote at rest while a check runs
NextAuditIdle ==
    \/ audit.pc = "idle" /\ RemoteMine
    \/ audit.pc = "idle" /\ \E d \in 0..tip : RemoteReorg(d)
    \/ audit.pc = "idle" /\ \E m \in MaxBlocksArgs, ok \in BOOLEAN : SyncStart(NoneArg, m, ok)
    \/ \E ok \in BOOLEAN : Fetch(ok)
    \/ \E n \in -1..4 : HandleReorg(n)
    \/ \E n \in 0..AllWrites : InsertBlock(n)
    \/ SyncReturn
    \/ pc = "idle" /\ \E mode \in AuditModes, num_blocks \in 1..MaxWindow : AuditCall(mode, num_blocks)
    \/ AuditBegin
    \/ AuditRead
    \/ \E ok \in BOOLEAN : AuditFetch(ok)
    \/ AuditCompare

SpecAuditIdle == Init /\ [][NextAuditIdle]_vars

\* the hash_mismatch records of a report
HashMismatches(report) == {i.height : i \in {j \in report.inconsistencies : j.type = "hash_mismatch"}}

\* check_block_consistency(n) returned after it read a store of the n
\* contiguous blocks 0..n-1 and fetched every height, and the stored block at
\* h is the only one whose hash is not the remote's; previousblockhash agrees
\* at every height
OneMutatedHash(h) ==
    /\ audit.mode = "block"
    /\ audit.outcome = "returned"
    /\ audit.start_height = 0
    /\ audit.db_latest_height = audit.num_blocks - 1
    /\ {r.height : r \in audit.db_blocks} = AuditWindow(audit)
    /\ {r.height : r \in audit.bitcoind_blocks} = AuditWindow(audit)
    /\ h \in AuditWindow(audit)
    /\ \A k \in AuditWindow(audit) :
          /\ (At(audit.db_blocks, k).hash # At(audit.bitcoind_blocks, k).hash) <=> (k = h)
          /\ At(audit.db_blocks, k).previousblockhash = At(audit.bitcoind_blocks, k).previousblockhash

\* C13: on a store of n contiguous blocks audited with window n, where the
\* stored block at one height h is the only one whose hash differs from the
\* remote's, the report holds exactly one hash_mismatch, at h, and the
\* consistency percentage (n-1)/n*100
C13_AuditAccuracy ==
    \A h \in 0..MaxHeight :
        OneMutatedHash(h) =>
            /\ HashMismatches(audit.report) = {h}
            /\ audit.report.percentage = Round2(audit.num_blocks - 1, audit.num_blocks)

\* C14: the status of a report is 'healthy' exactly when the audit found no
\* discrepancy of any type, a height of the window absent from the store
\* (missing_block) being one
C14_AuditStatus ==
    audit.outcome = "returned" =>
        ((audit.report.status = "healthy")
            <=> (audit.report.total_inconsistencies = 0 /\ audit.report.missing_count = 0))

\* C15: for every store state, the empty store included, and every pattern
\* of remote fetch failures check_block_consistency returns a report and
\* never raises
C15_AuditorReturns == audit.mode = "block" => audit.outcome # "raised"

\* the process is stopped inside sync_blocks: whatever handle_reorg or
\* insert_block wrote and did not commit is lost with the connection, so the
\* store is the committed one, whichever statement was running
Interrupt ==
    /\ pc # "idle"
    /\ pc' = "idle"
    /\ conn' = db
    /\ ev' = "interrupted"
    /\ UNCHANGED <<chain, skew, reorgs, db, height, current_height, end_height,
                   block_data, reorged, fork_height, detect, pre, mid, failed_op,
                   failed, attempted, args, fails, runs, log, audit>>

\* syncs against an honest remote, stopped at any statement and started again
NextInterrupt ==
    \/ RemoteMine
    \/ \E d \in 0..tip : RemoteReorg(d)
    \/ \E m \in MaxBlocksArgs : SyncStart(NoneArg, m, TRUE)
    \/ Fetch(TRUE)
    \/ HandleReorg(4)
    \/ InsertBlock(AllWrites)
    \/ SyncReturn
    \/ Interrupt

SpecInterrupt == Init /\ [][NextInterrupt]_vars

\* C16: when a sync run is interrupted at any statement, the committed store
\* is contiguous and chain-linked up to its committed tip, so that a later
\* sync without override can resume from the highest stored height plus one
C16_InterruptionSafety == ev = "interrupted" => (Contiguous(db) /\ Linked(db))

\* the steps the running sync has taken for height h, in order
StepsOf(h) ==
    LET AtHeight(e) == e[1] = h
        entries == SelectSeq(log, AtHeight)
    IN [i \in 1..Len(entries) |-> entries[i][2]]

\* the heights the running sync has finished with
Done(h) == Len(StepsOf(h)) > 0 /\ StepsOf(h)[Len(StepsOf(h))] \in {"fetch_failed", "inserted", "insert_failed"}

\* C17: at every commit point inside a sync run every stored block above the
\* lowest stored height links to the stored block below it, and a height is
\* validated and committed before the fetch of the next height begins
C17_NoMidSyncViolation ==
    /\ (pc # "idle" /\ ev \in {"inserted", "truncated"}) => Linked(db)
    /\ ev = "fetched" => \A h \in attempted \ {height} : Done(h)

\* C18: within a run the steps of a height are fetch, then handle_reorg, then
\* insert_block; no block is persisted before the detector ran on it, and a
\* height whose fetch failed is neither validated nor persisted in that run
StepOrder ==
    /\ \A h \in 0..MaxHeight :
           StepsOf(h) \in {<<>>, <<"fetch_failed">>, <<"fetched">>, <<"fetched", "detected">>,
                           <<"fetched", "detected", "inserted">>,
                           <<"fetched", "detected", "insert_failed">>}
    /\ ev = "inserted" => /\ detect # "none"
                          /\ BlockRow(block_data) \in db.blocks
                          /\ StepsOf(block_data.height) = <<"fetched", "detected", "inserted">>

C18_PerHeightOrdering ==
    /\ []StepOrder
    /\ [][(log' # log /\ ev' = "fetch_failed") => db' = db]_vars

\* the fetch of a height failed and a later height of the same run went
\* through the detector and was persisted
C18_Witness ==
    /\ ev = "inserted"
    /\ \E h \in 0..MaxHeight : h < block_data.height /\ StepsOf(h) = <<"fetch_failed">>

\* C19: when handle_reorg truncated at fork point f while the sync was
\* processing a block, the next block persisted is the one at f+1
C19_ResumptionAfterTruncation ==
    (ev = "inserted" /\ reorged) => block_data.height = fork_height + 1

\* C20: the run begins at start_height whenever one is given, 0 included, in
\* every store state, and at the highest stored height plus one only when none
\* is given
C20_StartHeight ==
    ev = "started" =>
        current_height = IF args.start_height.given
                         THEN args.start_height.value
                         ELSE IF db.blocks = {} THEN 0 ELSE Max(Heights(db)) + 1

\* C21: the heights a run attempts are exactly start..end, where end is
\* min(start + max_blocks - 1, tip) whenever max_blocks is given, 0 included,
\* and the remote tip read at the start of the run otherwise
C21_EndHeight ==
    /\ ev = "started" =>
           end_height = IF args.max_blocks.given
                        THEN MinOf(current_height + args.max_blocks.value - 1, tip)
                        ELSE tip
    /\ ev = "sync_returned" => attempted = current_height..end_height

\* the block stored at the height below the incoming block has the hash the
\* incoming block names as its previousblockhash
PreviousStored(d, b) ==
    \E r \in d.blocks : r.height = b.height - 1 /\ r.hash = b.previousblockhash

\* C22: when the stored block at height h-1 has the hash the incoming block
\* names as previousblockhash, handle_reorg reports no reorg and leaves every
\* table of the store as it was
C22_ContinuousAccepted ==
    (pc = "insert" /\ PreviousStored(pre, block_data)) =>
        /\ ~reorged
        /\ detect \in {"continuous", "raised"}
        /\ mid = pre
        /\ db = pre

\* handle_reorg returned on a block of height 2 whose previous block is stored
C22_Witness ==
    /\ pc = "insert"
    /\ detect = "continuous"
    /\ block_data.height = 2
    /\ PreviousStored(db, block_data)

\* rows of bag B whose txid is in S
KeepByTxid(B, S) == [r \in {x \in DOMAIN B : x.txid \in S} |-> B[r]]

\* the blocks of store d at heights up to f with their transactions, inputs
\* and outputs
UpTo(d, f) ==
    LET txs == {t \in d.transactions : t.block_height <= f}
        txids == {t.txid : t \in txs}
    IN [blocks |-> {r \in d.blocks : r.height <= f},
        transactions |-> txs,
        tx_inputs |-> KeepByTxid(d.tx_inputs, txids),
        tx_outputs |-> KeepByTxid(d.tx_outputs, txids)]

\* C23: a truncation at fork point f leaves every block at a height up to f
\* and all of its transactions, inputs and outputs exactly as they were
C23_CascadeFrame ==
    ev = "truncated" =>
        /\ UpTo(mid, fork_height) = UpTo(pre, fork_height)
        /\ db = mid

\* a truncation removed a block and kept a block with its rows
C23_Witness ==
    /\ ev = "truncated"
    /\ mid.blocks # pre.blocks
    /\ UpTo(mid, fork_height).blocks # {}
    /\ UpTo(mid, fork_height).tx_outputs # EmptyBag

\* the heights of a set of rows or fetched blocks
HeightsOf(rows) == {r.height : r \in rows}

\* while a check runs and when it has returned, everything it requested from
\* the remote and everything it reports lies in its window (the report of
\* run_full_consistency_check joins two checks, each with its own window)
InWindow ==
    /\ audit.pc = "fetch" =>
          /\ audit.height \in audit.start_height..(audit.db_latest_height + 1)
          /\ HeightsOf(audit.bitcoind_blocks) = audit.start_height..(audit.height - 1)
    /\ (audit.outcome = "returned" /\ audit.mode # "full") =>
          /\ audit.report.start_height = audit.start_height
          /\ audit.report.end_height = audit.db_latest_height
          /\ HeightsOf(audit.bitcoind_blocks) = AuditWindow(audit)
          /\ HeightsOf(audit.report.inconsistencies) \subseteq AuditWindow(audit)
          /\ audit.report.missing_blocks \subseteq AuditWindow(audit)

NextAuditFetch ==
    \/ audit.pc = "idle" /\ RemoteMine
    \/ audit.pc = "idle" /\ \E d \in 0..tip : RemoteReorg(d)
    \/ audit.pc = "idle" /\ SyncStart(NoneArg, NoneArg, TRUE)
    \/ Fetch(TRUE)
    \/ HandleReorg(4)
    \/ InsertBlock(AllWrites)
    \/ SyncReturn
    \/ pc = "idle" /\ \E num_blocks \in 1..MaxWindow : AuditCall("block", num_blocks)
    \/ AuditBegin
    \/ AuditRead
    \/ \E ok \in BOOLEAN : AuditFetch(ok)
    \/ AuditCompare

SpecAuditFetch == Init /\ [][NextAuditFetch]_vars

\* the heights of the prev_hash_mismatch records of a report
PrevHashMismatches(report) ==
    {i.height : i \in {j \in report.inconsistencies : j.type = "prev_hash_mismatch"}}

\* C25: a prev_hash_mismatch is reported at height h only if h and h-1 are
\* both in the window, both stored locally and both fetched from the remote
C25_PrevHashGuard ==
    (audit.outcome = "returned" /\ audit.mode = "block") =>
        \A h \in PrevHashMismatches(audit.report) :
            /\ h \in AuditWindow(audit)
            /\ h - 1 \in AuditWindow(audit)
            /\ Has(audit.db_blocks, h) /\ Has(audit.db_blocks, h - 1)
            /\ Has(audit.bitcoind_blocks, h) /\ Has(audit.bitcoind_blocks, h - 1)

\* a report with a prev_hash_mismatch from a check that could not fetch every
\* height of its window
C25_Witness ==
    /\ audit.outcome = "returned"
    /\ audit.mode = "block"
    /\ PrevHashMismatches(audit.report) # {}
    /\ HeightsOf(audit.bitcoind_blocks) # AuditWindow(audit)

HashHeights(d, b) ==
    {<<r.hash, r.height>> : r \in d.blocks}
        \cup {<<b.hash, b.height>>, <<b.previousblockhash, b.height - 1>>}

UniqueHeights(d, b) ==
    \A p, q \in HashHeights(d, b) : p[1] = q[1] => p[2] = q[2]

\* C27: handle_reorg changes the store only by a truncation, and it truncates
\* only when the previous hash of the incoming block is stored at a height
\* below h-1, which is then the fork point; when every hash belongs to one
\* height it deletes no row
C27_TruncationNeedsMisplacedHash ==
    pc = "insert" =>
        /\ mid # pre => detect = "truncated"
        /\ detect = "truncated" =>
              \E r \in pre.blocks :
                  /\ r.hash = block_data.previousblockhash
                  /\ r.height < block_data.height - 1
                  /\ r.height = fork_height
        /\ UniqueHeights(pre, block_data) => (mid = pre /\ ~reorged)

\* a skewed answer made handle_reorg delete a stored block
C27_Witness ==
    /\ pc = "insert"
    /\ detect = "truncated"
    /\ mid.blocks # pre.blocks
    /\ ~UniqueHeights(pre, block_data)

\* C28: the consistency percentage of every report returned by
\* check_block_consistency and by check_chain_work lies between 0 and 100
\* inclusive (percentages are carried in hundredths)
C28_PercentageRange ==
    audit.outcome = "returned" =>
        (0 <= audit.report.percentage /\ audit.report.percentage <= 10000)

\* check_block_consistency interleaved with syncs called with any arguments,
\* with RPC and statement errors on both sides, against a remote that only
\* grows
NextAuditStatic ==
    \/ RemoteMine
    \/ \E st \in StartArgs, m \in MaxBlocksArgs, ok \in BOOLEAN : SyncStart(st, m, ok)
    \/ \E ok \in BOOLEAN : Fetch(ok)
    \/ \E n \in -1..4 : HandleReorg(n)
    \/ \E n \in 0..AllWrites : InsertBlock(n)
    \/ SyncReturn
    \/ \E num_blocks \in 1..MaxWindow : AuditCall("block", num_blocks)
    \/ AuditBegin
    \/ AuditRead
    \/ \E ok \in BOOLEAN : AuditFetch(ok)
    \/ AuditCompare

SpecAuditStatic == Init /\ [][NextAuditStatic]_vars

\* C29: while the remote only serves the blocks it has (it never replaces one)
\* and the store is written by sync_blocks alone, a check_block_consistency
\* interleaved in any way with a running sync reports no hash_mismatch and no
\* prev_hash_mismatch
C29_NoFalseAlarm ==
    /\ audit.outcome = "returned" =>
          /\ HashMismatches(audit.report) = {}
          /\ PrevHashMismatches(audit.report) = {}
    /\ audit.block_report # NoReport =>
          /\ HashMismatches(audit.block_report) = {}
          /\ PrevHashMismatches(audit.block_report) = {}

\* a block check returned while a sync was running: it compared two heights and
\* the sync stored a further block after the check had read the store
C29_Witness ==
    /\ audit.outcome = "returned"
    /\ audit.mode = "block"
    /\ pc # "idle"
    /\ audit.report.total >= 2
    /\ audit.db_latest_height < Max(Heights(db))

\* the rows of the four tables that carry the hash of block b or the txid of
\* its coinbase transaction, which no other block has
RowsOfBlock(d, b) ==
    [blocks |-> {r \in d.blocks : r.hash = b.hash},
     transactions |-> {t \in d.transactions : t.block_hash = b.hash},
     tx_inputs |-> {e \in BagToSet(d.tx_inputs) : e.txid = b.tx[1].txid},
     tx_outputs |-> {e \in BagToSet(d.tx_outputs) : e.txid = b.tx[1].txid}]

NoRows == [blocks |-> {}, transactions |-> {}, tx_inputs |-> {}, tx_outputs |-> {}]

\* the rollback of a failed insert_block after a truncation goes back to the
\* truncated store and not to the store before the truncation
TruncationSurvivesRollback ==
    (ev = "insert_failed" /\ reorged) =>
        /\ db = mid
        /\ conn = mid
        /\ \A r \in db.blocks : r.height <= fork_height
        /\ db.blocks \cap (pre.blocks \ mid.blocks) = {}
        /\ RowsOfBlock(db, block_data).blocks = {}
        /\ RowsOfBlock(db, block_data).transactions = {}

\* C30: when handle_reorg truncated the store for an incoming block B and the
\* insert_block of B fails, the committed store is the truncated store, it has
\* no row of B, and the deleted blocks are not restored
C30_TruncationCommitted ==
    /\ TruncationSurvivesRollback
    /\ (ev = "insert_failed" /\ reorged) => RowsOfBlock(db, block_data) = NoRows

====
